---- MODULE Spec2Model ----
(***************************************************************************)
(* The PL/0 lexical scanner of src/src/lexer.rs as a state machine.        *)
(* One step of the machine is one call of Lexer::next on the current       *)
(* character (followed by the position update of the driving loop when the *)
(* character was consumed), or the call of Lexer::finalize.                *)
(*                                                                         *)
(* A source text is a sequence of characters; a character is a one-element *)
(* string.  Byte offsets are kept as the code keeps them: a character has  *)
(* a UTF-8 width and a slice of the text is only defined on character      *)
(* boundaries inside the text (anything else aborts the scan).             *)
(***************************************************************************)
EXTENDS Integers, Sequences, FiniteSets, TLC

\* ------------------------------------------------------------------------
\* Bounds of the explored input space
\* ------------------------------------------------------------------------
MaxLen == 3

\* A two-byte alphabetic character (U+00E9).
EAcute == "U+00E9"

\* A digit taken for the sentinel.
NUL_digit == "0"

\* The sentinel '\0' of finalize.
NUL == "NUL"

\* Characters of the exhaustively enumerated texts.
Alphabet == {"\n", "\"", "\\", "/", "*", ":", "=", "0", "b", ".", EAcute}

\* ------------------------------------------------------------------------
\* Characters (std::char)
\* ------------------------------------------------------------------------
Width(c) == IF c = EAcute THEN 2 ELSE 1

is_whitespace(c) == c \in {" ", "\n", "\t", "\r"}

LowerLetters ==
    {"a", "b", "c", "d", "e", "f", "g", "h", "i", "j", "k", "l", "m",
     "n", "o", "p", "q", "r", "s", "t", "u", "v", "w", "x", "y", "z"}

UpperLetters ==
    {"A", "B", "C", "D", "E", "F", "G", "H", "I", "J", "K", "L", "M",
     "N", "O", "P", "Q", "R", "S", "T", "U", "V", "W", "X", "Y", "Z"}

DecDigits == {"0", "1", "2", "3", "4", "5", "6", "7", "8", "9"}

is_alphabetic(c) == c \in LowerLetters \cup UpperLetters \cup {EAcute}

is_alphanumeric(c) == is_alphabetic(c) \/ c \in DecDigits

\* char::to_digit: the value of c as a digit, or -1 when it is none.
DigitValue(c) ==
    CASE c = "0" -> 0 [] c = "1" -> 1 [] c = "2" -> 2 [] c = "3" -> 3
      [] c = "4" -> 4 [] c = "5" -> 5 [] c = "6" -> 6 [] c = "7" -> 7
      [] c = "8" -> 8 [] c = "9" -> 9
      [] c \in {"a", "A"} -> 10 [] c \in {"b", "B"} -> 11
      [] c \in {"c", "C"} -> 12 [] c \in {"d", "D"} -> 13
      [] c \in {"e", "E"} -> 14 [] c \in {"f", "F"} -> 15
      [] OTHER -> -1

is_digit(c, radix) == DigitValue(c) >= 0 /\ DigitValue(c) < radix

\* ------------------------------------------------------------------------
\* Text, byte offsets and slices (str)
\* ------------------------------------------------------------------------
RECURSIVE ByteLen(_)
ByteLen(s) == IF s = <<>> THEN 0 ELSE Width(Head(s)) + ByteLen(Tail(s))

\* Byte offset of the n-th character (1-based); n = Len(s)+1 gives s.len().
ByteOff(s, n) == ByteLen(SubSeq(s, 1, n - 1))

IsCharBoundary(s, off) == \E n \in 1..(Len(s) + 1) : ByteOff(s, n) = off

CharIndex(s, off) == CHOOSE n \in 1..(Len(s) + 1) : ByteOff(s, n) = off

\* &text[r]: defined when r.start <= r.end <= text.len() on char boundaries.
ValidRange(s, r) ==
    /\ r.start <= r.end
    /\ IsCharBoundary(s, r.start)
    /\ IsCharBoundary(s, r.end)

Slice(s, r) == SubSeq(s, CharIndex(s, r.start), CharIndex(s, r.end) - 1)

Range(a, b) == [start |-> a, end |-> b]

\* ------------------------------------------------------------------------
\* Data model (src/src/lang.rs)
\* ------------------------------------------------------------------------
Position(line, col) == [col |-> col, line |-> line]

Included(p) == [bound |-> "Included", pos |-> p]
Excluded(p) == [bound |-> "Excluded", pos |-> p]

Token(lexeme, start, end) == [lexeme |-> lexeme, start |-> start, end |-> end]

Lex(tag) == [tag |-> tag]
LexIdent(id) == [tag |-> "Ident", id |-> id]
LexString(s) == [tag |-> "String", text |-> s]
LexNumber32(num) == [tag |-> "Number32", num |-> num]
LexDecimal64(num) == [tag |-> "Decimal64", num |-> num]

\* ------------------------------------------------------------------------
\* Scanner states (enum State)
\* ------------------------------------------------------------------------
Common == [kind |-> "Common"]
BlockComment == [kind |-> "BlockComment"]
BlockCommentAst == [kind |-> "BlockCommentAst"]
LineComment == [kind |-> "LineComment"]
Operator(first) == [kind |-> "Operator", first |-> first]
Ident(start) == [kind |-> "Ident", start |-> start]
String(start) == [kind |-> "String", start |-> start]
StringEscSeq(start) == [kind |-> "StringEscSeq", start |-> start]
Number(start, radix) == [kind |-> "Number", start |-> start, radix |-> radix]
Decimal(start) == [kind |-> "Decimal", start |-> start]

\* ------------------------------------------------------------------------
\* Literal parsing (u32::from_str_radix, str::parse::<f64>)
\* ------------------------------------------------------------------------
\* A u32 is kept as two 16-bit halves so that values up to 2^32-1 are exact.
Half == 65536

U32(n) == [hi |-> n \div Half, lo |-> n % Half]

Ok(v) == [ok |-> TRUE, val |-> v]
Err == [ok |-> FALSE]

\* acc * radix + d with the overflow checks of checked_mul / checked_add.
CheckedMulAdd(acc, radix, d) ==
    LET lo2 == acc.lo * radix + d
        hi2 == acc.hi * radix + (lo2 \div Half)
    IN  IF hi2 >= Half THEN Err ELSE Ok([hi |-> hi2, lo |-> lo2 % Half])

RECURSIVE ParseDigits(_, _, _)
ParseDigits(digits, radix, acc) ==
    IF digits = <<>> THEN Ok(acc)
    ELSE IF ~is_digit(Head(digits), radix) THEN Err
    ELSE LET r == CheckedMulAdd(acc, radix, DigitValue(Head(digits)))
         IN  IF r.ok THEN ParseDigits(Tail(digits), radix, r.val) ELSE Err

from_str_radix(src, radix) ==
    IF src = <<>> THEN Err
    ELSE LET digits == IF Head(src) = "+" /\ Len(src) > 1 THEN Tail(src) ELSE src
         IN  ParseDigits(digits, radix, U32(0))

RECURSIVE StripLeadingZeros(_)
StripLeadingZeros(d) ==
    IF d # <<>> /\ Head(d) = "0" THEN StripLeadingZeros(Tail(d)) ELSE d

RECURSIVE StripTrailingZeros(_)
StripTrailingZeros(d) ==
    IF d # <<>> /\ d[Len(d)] = "0"
    THEN StripTrailingZeros(SubSeq(d, 1, Len(d) - 1)) ELSE d

AllDecDigits(d) == \A n \in 1..Len(d) : d[n] \in DecDigits

\* str::parse::<f64> on the spans the scanner can hand over (digits with an
\* optional point; no sign, no exponent).  The value of a literal is kept
\* as its canonical integer and fraction digits.
parse_f64(src) ==
    LET points == {n \in 1..Len(src) : src[n] = "."}
        p == IF points = {} THEN Len(src) + 1
             ELSE CHOOSE n \in points : \A m \in points : n <= m
        int == SubSeq(src, 1, p - 1)
        frac == SubSeq(src, p + 1, Len(src))
    IN  IF AllDecDigits(int) /\ AllDecDigits(frac) /\ Len(int) + Len(frac) > 0
        THEN Ok([int |-> StripLeadingZeros(int), frac |-> StripTrailingZeros(frac)])
        ELSE Err

\* ------------------------------------------------------------------------
\* Symbol table (fsm::Symbols<String>): the spellings in order of their ids
\* ------------------------------------------------------------------------
SymbolsNew == <<>>

HasSymbol(symbols, symbol) == \E n \in 1..Len(symbols) : symbols[n] = symbol

\* The id of the spelling (ids count from 0); a new spelling gets the next id.
get_or_create_id(symbols, symbol) ==
    IF HasSymbol(symbols, symbol)
    THEN [id |-> (CHOOSE n \in 1..Len(symbols) : symbols[n] = symbol) - 1,
          symbols |-> symbols]
    ELSE [id |-> Len(symbols), symbols |-> Append(symbols, symbol)]

into_table(symbols) == symbols

\* ------------------------------------------------------------------------
\* The scanner (struct Lexer) and the result of one handler call
\* ------------------------------------------------------------------------
\* A handler returns true (character consumed) or false (boundary: offer the
\* character again); a slice outside the text aborts the scan instead.
Ret(self, b) == [self |-> self, ret |-> b, abort |-> FALSE]
Abort(self) == [self |-> self, ret |-> FALSE, abort |-> TRUE]

push_inclusive(self, lexeme) ==
    Ret([self EXCEPT !.tokens =
            Append(@, Token(lexeme, self.token_start, Included(self.pos)))],
        TRUE)

push_exclusive(self, lexeme) ==
    Ret([self EXCEPT !.tokens =
            Append(@, Token(lexeme, self.token_start, Excluded(self.pos)))],
        FALSE)

\* push_symbol taking the size of the table for the id.
push_symbol_table_len(self, symbol) ==
    LET r == get_or_create_id(self.symbols, symbol)
    IN  Ret([self EXCEPT
                !.symbols = r.symbols,
                !.tokens = Append(@, Token(LexIdent(Len(r.symbols) - 1),
                                           self.token_start, Excluded(self.pos)))],
            FALSE)

push_symbol(self, symbol) ==
    LET r == get_or_create_id(self.symbols, symbol)
    IN  Ret([self EXCEPT
                !.symbols = r.symbols,
                !.tokens = Append(@, Token(LexIdent(r.id), self.token_start,
                                           Excluded(self.pos)))],
            FALSE)

\* The punctuation table of next_common.
SignLexeme(c) ==
    CASE c = "!" -> Lex("SignExclamation")
      [] c = "#" -> Lex("SignNumber")
      [] c = "(" -> Lex("SignLParen")
      [] c = ")" -> Lex("SignRParen")
      [] c = "*" -> Lex("SignAsterisk")
      [] c = "+" -> Lex("SignPlus")
      [] c = "," -> Lex("SignComma")
      [] c = "-" -> Lex("SignMinus")
      [] c = "." -> Lex("SignFullStop")
      [] c = ";" -> Lex("SignSemicolon")
      [] c = "=" -> Lex("SignEquals")
      [] c = "?" -> Lex("SignQuestion")
      [] OTHER -> Lex("Error")

\* next_common starting an identifier one byte late, as a string starts.
next_common_ident_late(self, c, index) ==
    LET s1 == [self EXCEPT !.token_start = self.pos]
    IN  CASE is_whitespace(c) -> Ret(s1, TRUE)
          [] c = "\"" -> Ret([s1 EXCEPT !.state = String(index + 1)], TRUE)
          [] c \in {"/", ":", "<", ">"} ->
                Ret([s1 EXCEPT !.state = Operator(c)], TRUE)
          [] c = "0" -> Ret([s1 EXCEPT !.state = Number(index, 0)], TRUE)
          [] c \in DecDigits \ {"0"} ->
                Ret([s1 EXCEPT !.state = Number(index, 10)], TRUE)
          [] is_alphabetic(c) -> Ret([s1 EXCEPT !.state = Ident(index + 1)], TRUE)
          [] OTHER -> push_inclusive(s1, SignLexeme(c))

next_common(self, c, index) ==
    LET s1 == [self EXCEPT !.token_start = self.pos]
    IN  CASE is_whitespace(c) -> Ret(s1, TRUE)
          [] c = "\"" -> Ret([s1 EXCEPT !.state = String(index + 1)], TRUE)
          [] c \in {"/", ":", "<", ">"} ->
                Ret([s1 EXCEPT !.state = Operator(c)], TRUE)
          [] c = "0" -> Ret([s1 EXCEPT !.state = Number(index, 0)], TRUE)
          [] c \in DecDigits \ {"0"} ->
                Ret([s1 EXCEPT !.state = Number(index, 10)], TRUE)
          [] is_alphabetic(c) -> Ret([s1 EXCEPT !.state = Ident(index)], TRUE)
          [] OTHER -> push_inclusive(s1, SignLexeme(c))

\* The token table of next_op for a pair that opens no comment.
\* The token table with the solidus taking its lookahead.
OpLexeme_solidus_inclusive(first, second) ==
    CASE first = "/" -> [lexeme |-> Lex("OpSolidus"), inclusive |-> TRUE]
      [] first = ":" /\ second = "=" ->
            [lexeme |-> Lex("OpAssign"), inclusive |-> TRUE]
      [] first = "<" /\ second = "=" ->
            [lexeme |-> Lex("OpLessEqual"), inclusive |-> TRUE]
      [] first = "<" -> [lexeme |-> Lex("OpLess"), inclusive |-> FALSE]
      [] first = ">" /\ second = "=" ->
            [lexeme |-> Lex("OpGreaterEqual"), inclusive |-> TRUE]
      [] first = ">" -> [lexeme |-> Lex("OpGreater"), inclusive |-> FALSE]
      [] OTHER -> [lexeme |-> Lex("Error"), inclusive |-> FALSE]

\* The token table with the two-character operators ended exclusively.
OpLexeme_all_exclusive(first, second) ==
    CASE first = "/" -> [lexeme |-> Lex("OpSolidus"), inclusive |-> FALSE]
      [] first = ":" /\ second = "=" ->
            [lexeme |-> Lex("OpAssign"), inclusive |-> FALSE]
      [] first = "<" /\ second = "=" ->
            [lexeme |-> Lex("OpLessEqual"), inclusive |-> FALSE]
      [] first = "<" -> [lexeme |-> Lex("OpLess"), inclusive |-> FALSE]
      [] first = ">" /\ second = "=" ->
            [lexeme |-> Lex("OpGreaterEqual"), inclusive |-> FALSE]
      [] first = ">" -> [lexeme |-> Lex("OpGreater"), inclusive |-> FALSE]
      [] OTHER -> [lexeme |-> Lex("Error"), inclusive |-> FALSE]

OpLexeme(first, second) ==
    CASE first = "/" -> [lexeme |-> Lex("OpSolidus"), inclusive |-> FALSE]
      [] first = ":" /\ second = "=" ->
            [lexeme |-> Lex("OpAssign"), inclusive |-> TRUE]
      [] first = "<" /\ second = "=" ->
            [lexeme |-> Lex("OpLessEqual"), inclusive |-> TRUE]
      [] first = "<" -> [lexeme |-> Lex("OpLess"), inclusive |-> FALSE]
      [] first = ">" /\ second = "=" ->
            [lexeme |-> Lex("OpGreaterEqual"), inclusive |-> TRUE]
      [] first = ">" -> [lexeme |-> Lex("OpGreater"), inclusive |-> FALSE]
      [] OTHER -> [lexeme |-> Lex("Error"), inclusive |-> FALSE]

\* next_op taking the asterisk of the opener for the first of a closing pair.
next_op_opener_counts(self, first, second) ==
    CASE first = "/" /\ second = "*" ->
            Ret([self EXCEPT !.state = BlockCommentAst], TRUE)
      [] first = "/" /\ second = "/" ->
            Ret([self EXCEPT !.state = LineComment], TRUE)
      [] OTHER ->
            LET s1 == [self EXCEPT !.state = Common]
                op == OpLexeme(first, second)
            IN  IF op.inclusive THEN push_inclusive(s1, op.lexeme)
                ELSE push_exclusive(s1, op.lexeme)

next_op(self, first, second) ==
    CASE first = "/" /\ second = "*" ->
            Ret([self EXCEPT !.state = BlockComment], TRUE)
      [] first = "/" /\ second = "/" ->
            Ret([self EXCEPT !.state = LineComment], TRUE)
      [] OTHER ->
            LET s1 == [self EXCEPT !.state = Common]
                op == OpLexeme(first, second)
            IN  IF op.inclusive THEN push_inclusive(s1, op.lexeme)
                ELSE push_exclusive(s1, op.lexeme)

\* The keyword table without odd.
Keyword_no_odd(id) ==
    CASE id = <<"b", "e", "g", "i", "n">> -> "KwBegin"
      [] id = <<"c", "a", "l", "l">> -> "KwCall"
      [] id = <<"c", "o", "n", "s", "t">> -> "KwConst"
      [] id = <<"d", "o">> -> "KwDo"
      [] id = <<"e", "n", "d">> -> "KwEnd"
      [] id = <<"i", "f">> -> "KwIf"
      [] id = <<"p", "r", "o", "c", "e", "d", "u", "r", "e">> -> "KwProcedure"
      [] id = <<"t", "h", "e", "n">> -> "KwThen"
      [] id = <<"v", "a", "r">> -> "KwVar"
      [] id = <<"w", "h", "i", "l", "e">> -> "KwWhile"
      [] OTHER -> ""

\* The keyword table of next_id: the keyword's lexeme tag, or "" for none.
Keyword(id) ==
    CASE id = <<"b", "e", "g", "i", "n">> -> "KwBegin"
      [] id = <<"c", "a", "l", "l">> -> "KwCall"
      [] id = <<"c", "o", "n", "s", "t">> -> "KwConst"
      [] id = <<"d", "o">> -> "KwDo"
      [] id = <<"e", "n", "d">> -> "KwEnd"
      [] id = <<"i", "f">> -> "KwIf"
      [] id = <<"o", "d", "d">> -> "KwOdd"
      [] id = <<"p", "r", "o", "c", "e", "d", "u", "r", "e">> -> "KwProcedure"
      [] id = <<"t", "h", "e", "n">> -> "KwThen"
      [] id = <<"v", "a", "r">> -> "KwVar"
      [] id = <<"w", "h", "i", "l", "e">> -> "KwWhile"
      [] OTHER -> ""

\* next_id interning the spelling before it is matched against the keywords.
next_id_intern_first(self, c, index) ==
    IF is_alphanumeric(c) THEN Ret(self, TRUE)
    ELSE LET s1 == [self EXCEPT !.state = Common]
         IN  IF ~ValidRange(self.text, index) THEN Abort(s1)
             ELSE LET id == Slice(self.text, index)
                      r == push_symbol(s1, id)
                  IN  IF Keyword(id) # ""
                      THEN push_exclusive([s1 EXCEPT !.symbols = r.self.symbols],
                                          Lex(Keyword(id)))
                      ELSE r

next_id(self, c, index) ==
    IF is_alphanumeric(c) THEN Ret(self, TRUE)
    ELSE LET s1 == [self EXCEPT !.state = Common]
         IN  IF ~ValidRange(self.text, index) THEN Abort(s1)
             ELSE LET id == Slice(self.text, index)
                  IN  IF Keyword(id) # "" THEN push_exclusive(s1, Lex(Keyword(id)))
                      ELSE push_symbol(s1, id)

\* next_str looking for the closing quote before the escape flag.
next_str_quote_first(self, c, is_escaped, index) ==
    CASE c = "\"" ->
            IF ~ValidRange(self.text, index) THEN Abort(self)
            ELSE LET r == push_inclusive(self, LexString(Slice(self.text, index)))
                 IN  Ret([r.self EXCEPT !.state = Common], TRUE)
      [] is_escaped -> Ret([self EXCEPT !.state = String(index.start)], TRUE)
      [] c = "\\" -> Ret([self EXCEPT !.state = StringEscSeq(index.start)], TRUE)
      [] OTHER -> Ret(self, TRUE)

next_str(self, c, is_escaped, index) ==
    IF is_escaped THEN Ret([self EXCEPT !.state = String(index.start)], TRUE)
    ELSE CASE c = "\"" ->
                IF ~ValidRange(self.text, index) THEN Abort(self)
                ELSE LET r == push_inclusive(self, LexString(Slice(self.text, index)))
                     IN  Ret([r.self EXCEPT !.state = Common], TRUE)
           [] c = "\\" ->
                Ret([self EXCEPT !.state = StringEscSeq(index.start)], TRUE)
           [] OTHER -> Ret(self, TRUE)

\* The radix chosen by the character after a leading 0.
SniffRadix(c) ==
    CASE c = "b" -> 2 [] c = "o" -> 8 [] c = "x" -> 16 [] OTHER -> 10

\* next_num_known taking 0 for a span that does not parse.
next_num_known_or_zero(self, c, radix, index) ==
    IF is_digit(c, radix) THEN Ret(self, TRUE)
    ELSE IF c = "." /\ radix = 10
    THEN Ret([self EXCEPT !.state = Decimal(index.start)], TRUE)
    ELSE LET s1 == [self EXCEPT !.state = Common]
         IN  IF ~ValidRange(self.text, index) THEN Abort(s1)
             ELSE LET num == from_str_radix(Slice(self.text, index), radix)
                  IN  push_exclusive(s1, LexNumber32(IF num.ok THEN num.val
                                                     ELSE U32(0)))

\* next_num_known entering Decimal on a full stop whatever the radix.
next_num_known_dot_any_radix(self, c, radix, index) ==
    IF is_digit(c, radix) THEN Ret(self, TRUE)
    ELSE IF c = "."
    THEN Ret([self EXCEPT !.state = Decimal(index.start)], TRUE)
    ELSE LET s1 == [self EXCEPT !.state = Common]
         IN  IF ~ValidRange(self.text, index) THEN Abort(s1)
             ELSE LET num == from_str_radix(Slice(self.text, index), radix)
                  IN  push_exclusive(s1, IF num.ok THEN LexNumber32(num.val)
                                         ELSE Lex("Error"))

\* The part of next_num after the radix is known.
next_num_known(self, c, radix, index) ==
    IF is_digit(c, radix) THEN Ret(self, TRUE)
    ELSE IF c = "." /\ radix = 10
    THEN Ret([self EXCEPT !.state = Decimal(index.start)], TRUE)
    ELSE LET s1 == [self EXCEPT !.state = Common]
         IN  IF ~ValidRange(self.text, index) THEN Abort(s1)
             ELSE LET num == from_str_radix(Slice(self.text, index), radix)
                  IN  push_exclusive(s1, IF num.ok THEN LexNumber32(num.val)
                                         ELSE Lex("Error"))

\* next_num keeping the prefix in the digit span.
next_num_keep_prefix(self, c, radix, index) ==
    IF radix = 0
    THEN LET r == SniffRadix(c)
         IN  IF r = 10
             THEN next_num_known([self EXCEPT !.state = Number(index.start, r)],
                                 c, r, index)
             ELSE Ret([self EXCEPT !.state = Number(index.start, r)], TRUE)
    ELSE next_num_known(self, c, radix, index)

next_num(self, c, radix, index) ==
    IF radix = 0
    THEN LET r == SniffRadix(c)
         IN  IF r = 10
             THEN next_num_known([self EXCEPT !.state = Number(index.start, r)],
                                 c, r, index)
             ELSE Ret([self EXCEPT !.state = Number(index.end + 1, r)], TRUE)
    ELSE next_num_known(self, c, radix, index)

\* next_decimal going back to state Number at the end of the literal.
next_decimal_to_number(self, c, index) ==
    IF is_digit(c, 10) THEN Ret(self, TRUE)
    ELSE LET s1 == [self EXCEPT !.state = Number(index.start, 10)]
         IN  IF ~ValidRange(self.text, index) THEN Abort(s1)
             ELSE LET num == parse_f64(Slice(self.text, index))
                  IN  push_exclusive(s1, IF num.ok THEN LexDecimal64(num.val)
                                         ELSE Lex("Error"))

next_decimal(self, c, index) ==
    IF is_digit(c, 10) THEN Ret(self, TRUE)
    ELSE LET s1 == [self EXCEPT !.state = Common]
         IN  IF ~ValidRange(self.text, index) THEN Abort(s1)
             ELSE LET num == parse_f64(Slice(self.text, index))
                  IN  push_exclusive(s1, IF num.ok THEN LexDecimal64(num.val)
                                         ELSE Lex("Error"))

\* next_blk_comment closing only at the end of the input (nesting assumed).
next_blk_comment_no_close(self, after_asterisk, c) ==
    IF after_asterisk
    THEN CASE c = "*" -> Ret(self, TRUE)
           [] OTHER -> Ret([self EXCEPT !.state = BlockComment], TRUE)
    ELSE IF c = "*" THEN Ret([self EXCEPT !.state = BlockCommentAst], TRUE)
    ELSE Ret(self, TRUE)

next_blk_comment(self, after_asterisk, c) ==
    IF after_asterisk
    THEN CASE c = "*" -> Ret(self, TRUE)
           [] c = "/" -> Ret([self EXCEPT !.state = Common], TRUE)
           [] OTHER -> Ret([self EXCEPT !.state = BlockComment], TRUE)
    ELSE IF c = "*" THEN Ret([self EXCEPT !.state = BlockCommentAst], TRUE)
    ELSE Ret(self, TRUE)

next_line_comment(self, c) ==
    IF c = "\n" THEN Ret([self EXCEPT !.state = Common], TRUE)
    ELSE Ret(self, TRUE)

\* The dispatch on the state: the handler of the state is given the
\* character and the span from the state's start offset up to the character.
next(self, c, index) ==
    LET st == self.state
    IN  CASE st.kind = "Common" -> next_common(self, c, index)
          [] st.kind = "BlockComment" -> next_blk_comment(self, FALSE, c)
          [] st.kind = "BlockCommentAst" -> next_blk_comment(self, TRUE, c)
          [] st.kind = "LineComment" -> next_line_comment(self, c)
          [] st.kind = "Operator" -> next_op(self, st.first, c)
          [] st.kind = "Ident" -> next_id(self, c, Range(st.start, index))
          [] st.kind = "String" -> next_str(self, c, FALSE, Range(st.start, index))
          [] st.kind = "StringEscSeq" ->
                next_str(self, c, TRUE, Range(st.start, index))
          [] st.kind = "Number" ->
                next_num(self, c, st.radix, Range(st.start, index))
          [] st.kind = "Decimal" -> next_decimal(self, c, Range(st.start, index))

\* The match of finalize reporting a string left open only in state String.
finalize_open_esc_silent(self) ==
    LET st == self.state
        len == ByteLen(self.text)
    IN  CASE st.kind \in {"Common", "BlockComment", "BlockCommentAst", "LineComment",
                          "StringEscSeq"} ->
                Ret(self, FALSE)
          [] st.kind = "Operator" -> next_op(self, st.first, NUL)
          [] st.kind = "Ident" -> next_id(self, NUL, Range(st.start, len))
          [] st.kind = "String" -> push_exclusive(self, Lex("Error"))
          [] st.kind = "Number" ->
                next_num(self, NUL, st.radix, Range(st.start, len))
          [] st.kind = "Decimal" -> next_decimal(self, NUL, Range(st.start, len))

\* The match of finalize reporting a block comment left open.
finalize_open_comment_error(self) ==
    LET st == self.state
        len == ByteLen(self.text)
    IN  CASE st.kind \in {"Common", "LineComment"} -> Ret(self, FALSE)
          [] st.kind = "Operator" -> next_op(self, st.first, NUL)
          [] st.kind = "Ident" -> next_id(self, NUL, Range(st.start, len))
          [] st.kind \in {"String", "StringEscSeq", "BlockComment", "BlockCommentAst"} ->
                push_exclusive(self, Lex("Error"))
          [] st.kind = "Number" ->
                next_num(self, NUL, st.radix, Range(st.start, len))
          [] st.kind = "Decimal" -> next_decimal(self, NUL, Range(st.start, len))

\* The match of finalize: the open token, if any, is resolved.
finalize_open(self) ==
    LET st == self.state
        len == ByteLen(self.text)
    IN  CASE st.kind \in {"Common", "BlockComment", "BlockCommentAst", "LineComment"} ->
                Ret(self, FALSE)
          [] st.kind = "Operator" -> next_op(self, st.first, NUL)
          [] st.kind = "Ident" -> next_id(self, NUL, Range(st.start, len))
          [] st.kind \in {"String", "StringEscSeq"} ->
                push_exclusive(self, Lex("Error"))
          [] st.kind = "Number" ->
                next_num(self, NUL, st.radix, Range(st.start, len))
          [] st.kind = "Decimal" -> next_decimal(self, NUL, Range(st.start, len))

\* finalize appending Eof only when no open token was resolved.
finalize_eof_else(self) ==
    LET r == finalize_open(self)
    IN  IF r.abort \/ r.self.tokens # self.tokens THEN r
        ELSE push_exclusive([r.self EXCEPT !.token_start = r.self.pos], Lex("Eof"))

\* finalize leaving the start of the last token in token_start.
finalize_keep_start(self) ==
    LET r == finalize_open(self)
    IN  IF r.abort THEN r ELSE push_exclusive(r.self, Lex("Eof"))

finalize(self) ==
    LET r == finalize_open(self)
    IN  IF r.abort THEN r
        ELSE push_exclusive([r.self EXCEPT !.token_start = r.self.pos], Lex("Eof"))

\* The position update without the line increment.
Advance_same_line(pos, c) ==
    LET p1 == IF c = "\n" THEN [col |-> 0, line |-> pos.line] ELSE pos
    IN  [p1 EXCEPT !.col = @ + 1]

\* The position update of the driving loop after a consumed character.
Advance(pos, c) ==
    LET p1 == IF c = "\n" THEN [col |-> 0, line |-> pos.line + 1] ELSE pos
    IN  [p1 EXCEPT !.col = @ + 1]

\* ------------------------------------------------------------------------
\* Inputs
\* ------------------------------------------------------------------------
\* Every text of at most MaxLen characters over Alphabet ...
BoundedTexts == UNION {[1..n -> Alphabet] : n \in 0..MaxLen}

\* ... and longer texts: the documented examples, the 32-bit limits, every
\* keyword and sign, and a small program.
Examples ==
    {<<"x", " ", "y", " ", "x">>,
     <<"0", "b", "1", "0", "1">>,
     <<"0", "o", "1", "7">>,
     <<"0", "x", "1", "F">>,
     <<"4", "2">>,
     <<"3", ".", "1", "4">>,
     <<"9", "9", "9", "9", "9", "9", "9", "9", "9", "9", "9", "9", "9", "9", "9", "9", "9", "9", "9", "9">>,
     <<"/", "*", " ", "a", " ", "/", "*", " ", "n", "e", "s", "t", "e", "d", " ", "*", "/", " ", "c", "o", "m", "m", "e", "n", "t">>,
     <<"/", "*", " ", "a", " ", "/", "*", " ", "n", "e", "s", "t", "e", "d", " ", "c", "o", "m", "m", "e", "n", "t">>,
     <<"\"", "a", "b", "c">>,
     <<":">>,
     <<":", "=">>,
     <<"<", "=">>,
     <<">", "=">>,
     <<"<">>,
     <<">">>,
     <<"/">>,
     <<"4", "2", "9", "4", "9", "6", "7", "2", "9", "5">>,
     <<"4", "2", "9", "4", "9", "6", "7", "2", "9", "6">>,
     <<"0", "x", "F", "F", "F", "F", "F", "F", "F", "F">>,
     <<"0", "x", "1", "0", "0", "0", "0", "0", "0", "0", "0">>,
     <<"0", "b">>,
     <<"0", "o", "8">>,
     <<"0", "x", ".">>,
     <<"b", "e", "g", "i", "n", " ", "c", "a", "l", "l", " ", "c", "o", "n", "s", "t", " ", "d", "o", " ", "e", "n", "d", " ", "i", "f", " ", "o", "d", "d", " ", "p", "r", "o", "c", "e", "d", "u", "r", "e", " ", "t", "h", "e", "n", " ", "v", "a", "r", " ", "w", "h", "i", "l", "e">>,
     <<"!", "#", "(", ")", "*", "+", ",", "-", ".", ";", "=", "?", "@">>,
     <<"/", "/", " ", "c", "\n", "x">>,
     <<"\"", "a", "\\", "\"", "b", "\"", " ", "y">>,
     <<"1", ".", "5">>,
     <<"0", "0", "7">>,
     <<"D", "o", " ", "d", "o", " ", "x", "a", " ", "x", "b", " ", "x", "a">>,
     <<"a", ":", "=", "b", "1", "<", "2", ";", "\n", "i", "f", " ", "a", ">", "=", "0", "x", "1", "0", " ", "t", "h", "e", "n", " ", "c", "a", "l", "l", " ", "p", ".">>,
     <<"0", "b", "1", " ", "\"", "a", "\n", "b", "\"">>,
     <<"/", "*", "*", "/", "=">>,
     <<"/", "*", "*", "*", "/", "=">>,
     <<"/", "*", "/", "*", "/", "=">>,
     <<"/", "*", "a", "/", "*", "b", "*", "/", "0", "*", "/">>,
     <<"\"", "\\", "\\", "\"">>,
     <<"\"", "a", "\\", "\n", "b", "\"">>,
     <<"0", ".", "5", " ", "0", "x", "1", ".">>,
     <<"0", ";">>,
     <<"0", "o", "7", ".", "5">>}

Texts == BoundedTexts \cup Examples

\* ------------------------------------------------------------------------
\* State
\* ------------------------------------------------------------------------
VARIABLES
    text,         \* Lexer.text
    tokens,       \* Lexer.tokens
    symbols,      \* Lexer.symbols
    state,        \* Lexer.state
    token_start,  \* Lexer.token_start
    pos,          \* Lexer.pos
    k,            \* the character the loop of parse is at (1-based)
    pc            \* "scan" in the loop, "done" after finalize, "abort" on a panic

vars == <<text, tokens, symbols, state, token_start, pos, k, pc>>

Self ==
    [text |-> text, tokens |-> tokens, symbols |-> symbols, state |-> state,
     token_start |-> token_start, pos |-> pos]

\* The character offered and its byte offset (text.char_indices()).
c == text[k]
index == ByteOff(text, k)

Init ==
    /\ text \in Texts
    /\ tokens = <<>>
    /\ symbols = SymbolsNew
    /\ state = Common
    /\ token_start = Position(0, 0)
    /\ pos = Position(1, 1)
    /\ k = 1
    /\ pc = "scan"

Offered == pc = "scan" /\ k <= Len(text)

\* The loop body advancing the position on every call of next.
Step_advance_always(r) ==
    /\ tokens' = r.self.tokens
    /\ symbols' = r.self.symbols
    /\ state' = r.self.state
    /\ token_start' = r.self.token_start
    /\ UNCHANGED text
    /\ IF r.abort
       THEN pc' = "abort" /\ UNCHANGED <<pos, k>>
       ELSE /\ pc' = pc
            /\ pos' = Advance(r.self.pos, c)
            /\ IF r.ret THEN k' = k + 1 ELSE UNCHANGED k

\* One pass of `while !lexer.next(c, index) {}` and, when the character was
\* consumed, the rest of the loop body.
Step(r) ==
    /\ tokens' = r.self.tokens
    /\ symbols' = r.self.symbols
    /\ state' = r.self.state
    /\ token_start' = r.self.token_start
    /\ UNCHANGED text
    /\ IF r.abort
       THEN pc' = "abort" /\ UNCHANGED <<pos, k>>
       ELSE /\ pc' = pc
            /\ IF r.ret
               THEN pos' = Advance(r.self.pos, c) /\ k' = k + 1
               ELSE UNCHANGED <<pos, k>>

NextCommon ==
    /\ Offered /\ state.kind = "Common"
    /\ Step(next(Self, c, index))

NextBlkComment ==
    /\ Offered /\ state.kind \in {"BlockComment", "BlockCommentAst"}
    /\ Step(next(Self, c, index))

NextLineComment ==
    /\ Offered /\ state.kind = "LineComment"
    /\ Step(next(Self, c, index))

NextOp ==
    /\ Offered /\ state.kind = "Operator"
    /\ Step(next(Self, c, index))

NextId ==
    /\ Offered /\ state.kind = "Ident"
    /\ Step(next(Self, c, index))

NextStr ==
    /\ Offered /\ state.kind \in {"String", "StringEscSeq"}
    /\ Step(next(Self, c, index))

NextNum ==
    /\ Offered /\ state.kind = "Number"
    /\ Step(next(Self, c, index))

NextDecimal ==
    /\ Offered /\ state.kind = "Decimal"
    /\ Step(next(Self, c, index))

\* End of the loop: finalize, then the Text is built from tokens and symbols.
Finalize ==
    /\ pc = "scan" /\ k > Len(text)
    /\ LET r == finalize(Self)
       IN  /\ tokens' = r.self.tokens
           /\ symbols' = into_table(r.self.symbols)
           /\ state' = r.self.state
           /\ token_start' = r.self.token_start
           /\ pc' = IF r.abort THEN "abort" ELSE "done"
    /\ UNCHANGED <<text, pos, k>>

Next ==
    \/ NextCommon
    \/ NextBlkComment
    \/ NextLineComment
    \/ NextOp
    \/ NextId
    \/ NextStr
    \/ NextNum
    \/ NextDecimal
    \/ Finalize

Spec == Init /\ [][Next]_vars

TypeOK ==
    /\ pc \in {"scan", "done", "abort"}
    /\ k \in 1..(Len(text) + 1)

\* ------------------------------------------------------------------------
\* Vocabulary of the properties
\* ------------------------------------------------------------------------
\* Line/column order of positions.
PosLE(p, q) == p.line < q.line \/ (p.line = q.line /\ p.col <= q.col)
PosLT(p, q) == PosLE(p, q) /\ p # q

\* The position of the n-th character of s, read off the text alone: the
\* line counts the newlines before it, the column the characters since the
\* last of them.  n = Len(s) + 1 is the position just past the text.
SourcePos(s, n) ==
    LET nls == {m \in 1..(n - 1) : s[m] = "\n"}
        last == IF nls = {} THEN 0 ELSE CHOOSE m \in nls : \A o \in nls : o <= m
    IN  Position(1 + Cardinality(nls), n - last)

IsSourcePos(s, p) == \E n \in 1..(Len(s) + 1) : SourcePos(s, n) = p

\* The character of s that stands at position p.
CharAt(s, p) == CHOOSE n \in 1..(Len(s) + 1) : SourcePos(s, n) = p

\* The source text an exclusive-ended token covers.
Spelling(tok) ==
    SubSeq(text, CharAt(text, tok.start), CharAt(text, tok.end.pos) - 1)

Lexemes == [n \in 1..Len(tokens) |-> tokens[n].lexeme]

Tags == [n \in 1..Len(tokens) |-> tokens[n].lexeme.tag]

IdentTokens == {n \in 1..Len(tokens) : tokens[n].lexeme.tag = "Ident"}

NoDuplicates(seq) == \A m, n \in 1..Len(seq) : seq[m] = seq[n] => m = n

\* ------------------------------------------------------------------------
\* C1: for every input the scan terminates (every step lowers a measure that
\* is never negative, and a step is possible until finalize has run), and
\* the returned token list is non-empty, ends with Eof and holds no other Eof.
\* ------------------------------------------------------------------------
OneEofLast ==
    /\ Len(tokens) >= 1
    /\ \A n \in 1..Len(tokens) : tokens[n].lexeme.tag = "Eof" <=> n = Len(tokens)

\* Characters still to be consumed, counted twice, plus one while a token is
\* open and two until finalize has run: every step lowers it.
Measure ==
    2 * (Len(text) + 1 - k)
        + (IF state.kind = "Common" THEN 0 ELSE 1)
        + (IF pc = "scan" THEN 2 ELSE 0)

\* A call of next that does not consume the character changes the scanner,
\* so the inner loop never repeats a call.
Progress ==
    Offered =>
        LET r == next(Self, c, index)
        IN  r.ret \/ r.abort \/ r.self # Self

C1_TerminatesWithOneEof ==
    /\ [][Measure' < Measure]_vars
    /\ [](Measure >= 0)
    /\ [](Progress)
    /\ [](pc \in {"scan", "done"})
    /\ [](pc = "done" => OneEofLast)

C1_Witness ==
    /\ pc = "done"
    /\ Len(tokens) >= 3
    /\ tokens[Len(tokens)].lexeme.tag = "Eof"

\* ------------------------------------------------------------------------
\* C2: every token starts at or before the position of its end bound, and
\* the starts of consecutive tokens never decrease (line first, then column).
\* ------------------------------------------------------------------------
C2_StartsOrdered ==
    /\ \A n \in 1..Len(tokens) : PosLE(tokens[n].start, tokens[n].end.pos)
    /\ \A n \in 1..(Len(tokens) - 1) : PosLE(tokens[n].start, tokens[n + 1].start)

C2_Witness ==
    /\ pc = "done"
    /\ \E n \in 1..(Len(tokens) - 1) :
          /\ tokens[n].start.line < tokens[n].end.pos.line
          /\ tokens[n].end.pos.col < tokens[n].start.col
          /\ tokens[n + 1].start.col < tokens[n].start.col

\* ------------------------------------------------------------------------
\* C3: identifier tokens with the same spelling carry the same symbol id,
\* different spellings carry different ids, and ids are 0, 1, 2, ... in the
\* order in which the spellings first occur.
\* ------------------------------------------------------------------------
C3_SymbolIds ==
    /\ \A m, n \in IdentTokens :
          (Spelling(tokens[m]) = Spelling(tokens[n]))
              <=> (tokens[m].lexeme.id = tokens[n].lexeme.id)
    /\ \A n \in IdentTokens :
          LET earlier == {tokens[m].lexeme.id : m \in {o \in IdentTokens : o < n}}
          IN  \/ tokens[n].lexeme.id \in earlier
              \/ tokens[n].lexeme.id = Cardinality(earlier)

\* x y x: ids 0, 1, 0.
C3_Witness ==
    /\ pc = "done"
    /\ \E l, m, n \in IdentTokens :
          /\ l < m /\ m < n
          /\ tokens[l].lexeme.id = 0
          /\ tokens[m].lexeme.id = 1
          /\ tokens[n].lexeme.id = 0

\* ------------------------------------------------------------------------
\* C4: in the returned Text every Ident(id) has id < length(symbols) and
\* symbols[id] is the spelling of that token; symbols holds every distinct
\* identifier spelling once and nothing else.
\* ------------------------------------------------------------------------
C4_SymbolsTable ==
    pc = "done" =>
        /\ \A n \in IdentTokens :
              /\ tokens[n].lexeme.id < Len(symbols)
              /\ symbols[tokens[n].lexeme.id + 1] = Spelling(tokens[n])
        /\ NoDuplicates(symbols)
        /\ \A i \in 1..Len(symbols) : \E n \in IdentTokens : tokens[n].lexeme.id = i - 1

\* Two spellings, one of them used twice, next to a keyword.
C4_Witness ==
    /\ pc = "done"
    /\ Len(symbols) >= 2
    /\ Cardinality(IdentTokens) > Len(symbols)
    /\ \E n \in 1..Len(tokens) : tokens[n].lexeme.tag = "KwDo"

\* ------------------------------------------------------------------------
\* C5: the scan never aborts: a start offset held by the state is at most
\* the offset of the character offered (the text length at the end of the
\* input), so every span taken from the source is a well-formed range.
\* ------------------------------------------------------------------------
HasStart == state.kind \in {"Ident", "String", "StringEscSeq", "Number", "Decimal"}

C5_NeverAborts ==
    /\ pc # "abort"
    /\ HasStart =>
          /\ state.start <= ByteOff(text, k)
          /\ state.start <= ByteLen(text)
          /\ ValidRange(text, Range(state.start, ByteOff(text, k)))

\* A span that ends after a two-byte character has been sliced out.
C5_Witness ==
    /\ pc = "done"
    /\ \E n \in IdentTokens :
          /\ EAcute \in {Spelling(tokens[n])[i] : i \in 1..Len(Spelling(tokens[n]))}
          /\ n > 1

\* ------------------------------------------------------------------------
\* C6: when the input ends in state String or StringEscSeq, the output ends
\* with one Error token that starts at the opening quote, followed by Eof,
\* and no token was produced for the open string before.
\* ------------------------------------------------------------------------
EndsInString ==
    pc = "scan" /\ k > Len(text) /\ state.kind \in {"String", "StringEscSeq"}

C6_UnterminatedString ==
    [][EndsInString =>
        LET quote == CharIndex(text, state.start) - 1
            n == Len(tokens)
        IN  /\ text[quote] = "\""
            /\ Len(tokens') = n + 2
            /\ SubSeq(tokens', 1, n) = tokens
            /\ tokens'[n + 1].lexeme = Lex("Error")
            /\ tokens'[n + 1].start = SourcePos(text, quote)
            /\ tokens'[n + 2].lexeme = Lex("Eof")
            /\ \A m \in 1..n : PosLT(tokens[m].start, SourcePos(text, quote))
            /\ pc' = "done"]_vars

C6_Witness ==
    /\ pc = "done"
    /\ state.kind = "StringEscSeq"
    /\ Len(tokens) >= 3
    /\ tokens[Len(tokens) - 1].lexeme = Lex("Error")

\* ------------------------------------------------------------------------
\* C7 (as claimed): the input `/* a /* nested */ comment` yields the Eof
\* token alone.
\* ------------------------------------------------------------------------
NestedComment ==
    <<"/", "*", " ", "a", " ", "/", "*", " ", "n", "e", "s", "t", "e", "d", " ",
      "*", "/", " ", "c", "o", "m", "m", "e", "n", "t">>

C7_OnlyEof ==
    (pc = "done" /\ text = NestedComment) => Lexemes = <<Lex("Eof")>>

\* ------------------------------------------------------------------------
\* C7 (amended): the input `/* a /* nested */ comment` yields no Error
\* token: the first `*/` closes the comment, and the output is the Ident
\* token of `comment` followed by Eof.
\* ------------------------------------------------------------------------
C7_IdentThenEof ==
    (pc = "done" /\ text = NestedComment) =>
        /\ Lexemes = <<LexIdent(0), Lex("Eof")>>
        /\ symbols = <<<<"c", "o", "m", "m", "e", "n", "t">>>>
        /\ tokens[1].start = Position(1, 19)

C7_Witness == pc = "done" /\ text = NestedComment /\ Len(tokens) = 2

\* ------------------------------------------------------------------------
\* C8: `:` yields Error, Eof; `:=` yields OpAssign, Eof; `<=` and `>=` yield
\* one operator token and Eof (the `=` gives no SignEquals token).
\* ------------------------------------------------------------------------
C8_TwoCharOperators ==
    pc = "done" =>
        /\ text = <<":">> => Lexemes = <<Lex("Error"), Lex("Eof")>>
        /\ text = <<":", "=">> => Lexemes = <<Lex("OpAssign"), Lex("Eof")>>
        /\ text = <<"<", "=">> => Lexemes = <<Lex("OpLessEqual"), Lex("Eof")>>
        /\ text = <<">", "=">> => Lexemes = <<Lex("OpGreaterEqual"), Lex("Eof")>>

C8_Witness == pc = "done" /\ text = <<":", "=">> /\ Len(tokens) = 2

\* ------------------------------------------------------------------------
\* Numeric literals read off the text
\* ------------------------------------------------------------------------
RadixOfPrefix(ch) == CASE ch = "b" -> 2 [] ch = "o" -> 8 [] ch = "x" -> 16

HasPrefix(s) == Len(s) >= 2 /\ s[1] = "0" /\ s[2] \in {"b", "o", "x"}

LitRadix(s) == IF HasPrefix(s) THEN RadixOfPrefix(s[2]) ELSE 10

\* The first character of the digit span.
LitFirst(s) == IF HasPrefix(s) THEN 3 ELSE 1

\* s starts with a prefixed literal with a digit, or with a digit 1-9.
StartsLiteral(s) ==
    \/ HasPrefix(s) /\ Len(s) >= 3 /\ is_digit(s[3], LitRadix(s))
    \/ Len(s) >= 1 /\ s[1] \in DecDigits \ {"0"}

\* The last character of the digit span.
LitLast(s) ==
    CHOOSE p \in LitFirst(s)..Len(s) :
        /\ \A n \in LitFirst(s)..p : is_digit(s[n], LitRadix(s))
        /\ p = Len(s) \/ ~is_digit(s[p + 1], LitRadix(s))

LitDigits(s) == SubSeq(s, LitFirst(s), LitLast(s))

\* The literal is not the integer part of a decimal literal.
LitEnds(s) == ~(LitRadix(s) = 10 /\ LitLast(s) < Len(s) /\ s[LitLast(s) + 1] = ".")

\* The digits of 2^32 - 1 in the radix.
MaxDigits(radix) ==
    CASE radix = 2 -> [n \in 1..32 |-> "1"]
      [] radix = 8 -> <<"3", "7", "7", "7", "7", "7", "7", "7", "7", "7", "7">>
      [] radix = 10 -> <<"4", "2", "9", "4", "9", "6", "7", "2", "9", "5">>
      [] radix = 16 -> [n \in 1..8 |-> "F"]

\* Digit strings of one length compared as numbers.
DigitsLE(a, b) ==
    \/ a = b
    \/ \E n \in 1..Len(a) :
          /\ DigitValue(a[n]) < DigitValue(b[n])
          /\ \A m \in 1..(n - 1) : DigitValue(a[m]) = DigitValue(b[m])

\* The digits denote a value of at most 2^32 - 1.
FitsU32(digits, radix) ==
    LET d == StripLeadingZeros(digits)
        m == MaxDigits(radix)
    IN  Len(d) < Len(m) \/ (Len(d) = Len(m) /\ DigitsLE(d, m))

\* The digits denote a value below 2^24, which PlainValue computes exactly.
SmallDigits(digits, radix) ==
    Len(StripLeadingZeros(digits)) <=
        (CASE radix = 2 -> 24 [] radix = 8 -> 8 [] radix = 10 -> 7 [] radix = 16 -> 6)

RECURSIVE PlainValue(_, _)
PlainValue(digits, radix) ==
    IF digits = <<>> THEN 0
    ELSE PlainValue(SubSeq(digits, 1, Len(digits) - 1), radix) * radix
            + DigitValue(digits[Len(digits)])

\* ------------------------------------------------------------------------
\* C9: a literal 0b/0o/0x with one or more digits of radix 2/8/16, and a
\* literal of decimal digits starting with 1-9, yields one Number32 token
\* whose value is the digit span after the prefix read in that radix,
\* whenever the value fits in 32 bits.
\* ------------------------------------------------------------------------
C9_NumberValue ==
    pc = "done" =>
        /\ (StartsLiteral(text) /\ LitEnds(text)
                /\ FitsU32(LitDigits(text), LitRadix(text))) =>
              /\ tokens[1].lexeme.tag = "Number32"
              /\ SmallDigits(LitDigits(text), LitRadix(text)) =>
                    tokens[1].lexeme.num =
                        U32(PlainValue(LitDigits(text), LitRadix(text)))
              /\ tokens[1].start = Position(1, 1)
              /\ tokens[1].end = Excluded(SourcePos(text, LitLast(text) + 1))
              /\ PosLE(SourcePos(text, LitLast(text) + 1), tokens[2].start)
        /\ text = <<"0", "b", "1", "0", "1">> =>
              Lexemes = <<LexNumber32(U32(5)), Lex("Eof")>>
        /\ text = <<"0", "o", "1", "7">> =>
              Lexemes = <<LexNumber32(U32(15)), Lex("Eof")>>
        /\ text = <<"0", "x", "1", "F">> =>
              Lexemes = <<LexNumber32(U32(31)), Lex("Eof")>>
        /\ text = <<"4", "2">> => Lexemes = <<LexNumber32(U32(42)), Lex("Eof")>>
        /\ text \in {<<"4", "2", "9", "4", "9", "6", "7", "2", "9", "5">>,
                     <<"0", "x", "F", "F", "F", "F", "F", "F", "F", "F">>} =>
              Lexemes = <<LexNumber32([hi |-> 65535, lo |-> 65535]), Lex("Eof")>>

C9_Witness ==
    /\ pc = "done"
    /\ text = <<"0", "x", "1", "F">>
    /\ tokens[1].lexeme = LexNumber32(U32(31))

\* ------------------------------------------------------------------------
\* C10: a digit span that is empty or denotes a value above 2^32 - 1 yields
\* one Error token with an exclusive end bound and no Number32 token, and
\* the terminating character is offered again in state Common.
\* ------------------------------------------------------------------------
\* The radix of the open number; a lone leading 0 is read in radix 10.
OpenRadix == IF state.radix = 0 THEN 10 ELSE state.radix

\* The digits of the open number, from its start offset to the character.
OpenDigits == SubSeq(text, CharIndex(text, state.start), k - 1)

\* The open number ends at the character offered, or at the end of input.
NumberEnds ==
    /\ pc = "scan" /\ state.kind = "Number"
    /\ \/ k > Len(text)
       \/ /\ ~(state.radix = 0 /\ c \in {"b", "o", "x"})
          /\ ~is_digit(c, OpenRadix)
          /\ ~(c = "." /\ OpenRadix = 10)

Unparsable == OpenDigits = <<>> \/ ~FitsU32(OpenDigits, OpenRadix)

C10_NumberError ==
    [][(NumberEnds /\ Unparsable) =>
        LET error == Token(Lex("Error"), token_start, Excluded(pos))
        IN  IF k > Len(text)
            THEN /\ Len(tokens') = Len(tokens) + 2
                 /\ SubSeq(tokens', 1, Len(tokens) + 1) = Append(tokens, error)
                 /\ tokens'[Len(tokens) + 2].lexeme = Lex("Eof")
            ELSE /\ tokens' = Append(tokens, error)
                 /\ k' = k /\ pos' = pos
                 /\ state' = Common
                 /\ pc' = "scan"]_vars

\* 4294967296 has been scanned to its end.
C10_Witness ==
    /\ pc = "done"
    /\ text = <<"4", "2", "9", "4", "9", "6", "7", "2", "9", "6">>
    /\ Lexemes = <<Lex("Error"), Lex("Eof")>>

\* ------------------------------------------------------------------------
\* First characters of tokens, read off the text
\* ------------------------------------------------------------------------
SignChars == {"!", "#", "(", ")", "*", "+", ",", "-", ".", ";", "=", "?"}

\* A character that starts no token and is no white space.
Unrecognized(ch) ==
    /\ ch \notin SignChars \cup {"\"", "/", ":", "<", ">"} \cup DecDigits
    /\ ~is_whitespace(ch)
    /\ ~is_alphabetic(ch)

\* The characters a token of the tag can start with.
StartsToken(ch, tag) ==
    CASE tag = "SignExclamation" -> ch = "!"
      [] tag = "SignNumber" -> ch = "#"
      [] tag = "SignLParen" -> ch = "("
      [] tag = "SignRParen" -> ch = ")"
      [] tag = "SignAsterisk" -> ch = "*"
      [] tag = "SignPlus" -> ch = "+"
      [] tag = "SignComma" -> ch = ","
      [] tag = "SignMinus" -> ch = "-"
      [] tag = "SignFullStop" -> ch = "."
      [] tag = "SignSemicolon" -> ch = ";"
      [] tag = "SignEquals" -> ch = "="
      [] tag = "SignQuestion" -> ch = "?"
      [] tag = "OpSolidus" -> ch = "/"
      [] tag = "OpAssign" -> ch = ":"
      [] tag \in {"OpLess", "OpLessEqual"} -> ch = "<"
      [] tag \in {"OpGreater", "OpGreaterEqual"} -> ch = ">"
      [] tag = "String" -> ch = "\""
      [] tag \in {"Number32", "Decimal64"} -> ch \in DecDigits
      [] tag = "Error" -> ch \in {"\"", ":"} \cup DecDigits \/ Unrecognized(ch)
      [] OTHER -> is_alphabetic(ch)

\* ------------------------------------------------------------------------
\* C11: every token starts at the position of its first source character
\* (the opening quote of a string, the leading 0 of a prefixed number), never
\* at the placeholder (0, 0); Eof has end Excluded(p) with p its own start,
\* the position just past the last character.
\* ------------------------------------------------------------------------
C11_TokenStarts ==
    \A n \in 1..Len(tokens) :
        LET tok == tokens[n]
        IN  /\ tok.start # Position(0, 0)
            /\ IsSourcePos(text, tok.start)
            /\ n > 1 => PosLT(tokens[n - 1].start, tok.start)
            /\ IF tok.lexeme.tag = "Eof"
               THEN /\ tok.start = SourcePos(text, Len(text) + 1)
                    /\ tok.end = Excluded(tok.start)
               ELSE /\ CharAt(text, tok.start) <= Len(text)
                    /\ StartsToken(text[CharAt(text, tok.start)], tok.lexeme.tag)
                    /\ PosLT(tok.start, tok.end.pos) \/ tok.end = Included(tok.start)

\* A prefixed number, then a string across a line break, then Eof.
C11_Witness ==
    /\ pc = "done"
    /\ \E n \in 1..Len(tokens) :
          tokens[n].lexeme.tag = "String" /\ tokens[n].start.col > 1
    /\ tokens[Len(tokens)].start.line > 1

\* ------------------------------------------------------------------------
\* C12: the position starts at line 1, column 1 and advances once per source
\* character, whatever the state and however often the character was
\* dispatched: when the k-th character is offered the position is the one
\* the first k-1 characters fix, with line >= 1 and col >= 1.
\* ------------------------------------------------------------------------
C12_PositionTracker ==
    /\ pos = SourcePos(text, k)
    /\ pos.line >= 1 /\ pos.col >= 1
    /\ k = 1 => pos = Position(1, 1)

\* A character offered a second time on a later line.
C12_Witness ==
    /\ Offered
    /\ state.kind = "Common"
    /\ pos.line > 1 /\ pos.col > 1
    /\ Len(tokens) >= 1
    /\ tokens[Len(tokens)].end = Excluded(pos)

\* ------------------------------------------------------------------------
\* C13: an Error token is emitted only for an unrecognized character in
\* Common, an Operator `:` not followed by `=`, a Number span that does not
\* parse, a Decimal span that does not parse, and the end of input inside
\* String/StringEscSeq.  In BlockComment, BlockCommentAst and LineComment no
\* token is emitted for any character, and at the end of the input in those
\* states nothing but the closing Eof is appended.
\* ------------------------------------------------------------------------
InComment == state.kind \in {"BlockComment", "BlockCommentAst", "LineComment"}

\* The open decimal ends here with a span that is not digits, a point, digits.
DecimalMalformed ==
    /\ pc = "scan" /\ state.kind = "Decimal"
    /\ k > Len(text) \/ ~is_digit(c, 10)
    /\ LET span == SubSeq(text, CharIndex(text, state.start), k - 1)
       IN  ~\E p \in 2..Len(span) :
              /\ span[p] = "."
              /\ \A n \in 1..Len(span) : n # p => span[n] \in DecDigits

ErrorCase ==
    \/ Offered /\ state.kind = "Common" /\ Unrecognized(c)
    \/ /\ pc = "scan" /\ state.kind = "Operator" /\ state.first = ":"
       /\ k > Len(text) \/ c # "="
    \/ NumberEnds /\ Unparsable
    \/ DecimalMalformed
    \/ EndsInString

C13_ErrorCases ==
    [][/\ \A n \in (Len(tokens) + 1)..Len(tokens') :
              tokens'[n].lexeme.tag = "Error" => ErrorCase
       /\ InComment =>
              IF k <= Len(text) THEN tokens' = tokens
              ELSE /\ Len(tokens') = Len(tokens) + 1
                   /\ SubSeq(tokens', 1, Len(tokens)) = tokens
                   /\ tokens'[Len(tokens')].lexeme = Lex("Eof")]_vars

\* An open block comment after an Error token, closed by the end of input.
C13_Witness ==
    /\ pc = "done"
    /\ state.kind \in {"BlockComment", "BlockCommentAst"}
    /\ Tags = <<"Error", "Eof">>

\* ------------------------------------------------------------------------
\* Operators read off the state and the character offered
\* ------------------------------------------------------------------------
\* State Operator resolves to a token: the pair opens no comment.
OperatorResolves ==
    /\ pc = "scan" /\ state.kind = "Operator"
    /\ k > Len(text) \/ ~(state.first = "/" /\ c \in {"*", "/"})

\* The pair is one of := <= >=.
TwoCharOperator ==
    OperatorResolves /\ k <= Len(text) /\ state.first \in {":", "<", ">"} /\ c = "="

OneCharTag(first) ==
    CASE first = "/" -> "OpSolidus"
      [] first = "<" -> "OpLess"
      [] first = ">" -> "OpGreater"
      [] first = ":" -> "Error"

TwoCharTag(first) ==
    CASE first = ":" -> "OpAssign"
      [] first = "<" -> "OpLessEqual"
      [] first = ">" -> "OpGreaterEqual"

\* ------------------------------------------------------------------------
\* C14 (as claimed): whenever state Operator resolves to a token, the token
\* has an exclusive end bound and the lookahead character is not consumed
\* but offered again in state Common, for every operator token and Error.
\* ------------------------------------------------------------------------
C14_AllExclusive ==
    [][(OperatorResolves /\ k <= Len(text)) =>
        /\ Len(tokens') = Len(tokens) + 1
        /\ tokens'[Len(tokens')].end = Excluded(pos)
        /\ k' = k
        /\ state' = Common]_vars

\* ------------------------------------------------------------------------
\* C14 (amended): whenever state Operator resolves to a token, the state
\* becomes Common; OpSolidus, OpLess, OpGreater and Error have an exclusive
\* end bound and the lookahead character is offered again in Common, while
\* OpAssign, OpLessEqual and OpGreaterEqual have an inclusive end bound at
\* the `=`, which is consumed.
\* ------------------------------------------------------------------------
C14_OperatorBounds ==
    [][OperatorResolves =>
        /\ state' = Common
        /\ IF TwoCharOperator
           THEN /\ tokens' = Append(tokens, Token(Lex(TwoCharTag(state.first)),
                                                  token_start, Included(pos)))
                /\ k' = k + 1
           ELSE LET tok == Token(Lex(OneCharTag(state.first)), token_start,
                                 Excluded(pos))
                IN  IF k <= Len(text)
                    THEN tokens' = Append(tokens, tok) /\ k' = k /\ pos' = pos
                    ELSE /\ Len(tokens') = Len(tokens) + 2
                         /\ SubSeq(tokens', 1, Len(tokens) + 1) = Append(tokens, tok)]_vars

\* := with an inclusive and < with an exclusive end bound in one output.
C14_Witness ==
    /\ pc = "done"
    /\ \E i, j \in 1..Len(tokens) :
          /\ tokens[i].lexeme.tag = "OpAssign" /\ tokens[i].end.bound = "Included"
          /\ tokens[j].lexeme.tag = "OpLess" /\ tokens[j].end.bound = "Excluded"

\* ------------------------------------------------------------------------
\* C15: a call of next that reports a boundary (a token is emitted, the
\* character is not consumed) leaves the state Common, and the call in state
\* Common always consumes the character; so a character is dispatched at
\* most twice (a boundary call is never followed by another one), a dispatch
\* emits at most one token, and the inner loop terminates.
\* ------------------------------------------------------------------------
C15_Redispatch ==
    [][Offered =>
        /\ k' \in {k, k + 1}
        /\ Len(tokens') <= Len(tokens) + 1
        /\ SubSeq(tokens', 1, Len(tokens)) = tokens
        /\ k' = k =>
              /\ state.kind # "Common"
              /\ state' = Common
              /\ Len(tokens') = Len(tokens) + 1
              /\ tokens'[Len(tokens')].end = Excluded(pos)
              /\ pos' = pos
        /\ state.kind = "Common" => k' = k + 1]_vars

\* The terminator of a number is offered a second time.
C15_Witness ==
    /\ Offered
    /\ state = Common
    /\ Len(tokens) >= 1
    /\ tokens[Len(tokens)].lexeme.tag = "Number32"
    /\ tokens[Len(tokens)].end = Excluded(pos)
    /\ c = "="

\* ------------------------------------------------------------------------
\* C16: at the end of the input finalize emits exactly one token for the
\* open run in state Operator, Ident, String, StringEscSeq, Number or
\* Decimal (the sentinel neither continues the token nor opens a comment or
\* a decimal), none in state Common or a comment state, and then appends
\* the Eof token.
\* ------------------------------------------------------------------------
AtEnd == pc = "scan" /\ k > Len(text)

OpenRun ==
    state.kind \in {"Operator", "Ident", "String", "StringEscSeq", "Number", "Decimal"}

\* The tags the token of the open run can have.
RunTags ==
    CASE state.kind = "Operator" -> {OneCharTag(state.first)}
      [] state.kind = "Ident" ->
            {"Ident", "KwBegin", "KwCall", "KwConst", "KwDo", "KwEnd", "KwIf",
             "KwOdd", "KwProcedure", "KwThen", "KwVar", "KwWhile"}
      [] state.kind \in {"String", "StringEscSeq"} -> {"Error"}
      [] state.kind = "Number" -> {"Number32", "Error"}
      [] state.kind = "Decimal" -> {"Decimal64", "Error"}
      [] OTHER -> {}

C16_Finalization ==
    [][AtEnd =>
        LET n == Len(tokens)
        IN  /\ pc' = "done"
            /\ SubSeq(tokens', 1, n) = tokens
            /\ Len(tokens') = n + (IF OpenRun THEN 2 ELSE 1)
            /\ tokens'[Len(tokens')].lexeme = Lex("Eof")
            /\ OpenRun =>
                  /\ tokens'[n + 1].lexeme.tag \in RunTags
                  /\ tokens'[n + 1].start = token_start
                  /\ tokens'[n + 1].end = Excluded(pos)
                  /\ state' = IF state.kind \in {"String", "StringEscSeq"}
                              THEN state ELSE Common
            /\ ~OpenRun => state' = state]_vars

\* A decimal literal and a line comment, each closed by the end of input.
C16_Witness ==
    /\ pc = "done"
    /\ \/ Tags = <<"Decimal64", "Eof">>
       \/ Tags = <<"Eof">> /\ state = LineComment

\* ------------------------------------------------------------------------
\* C17: a maximal run of an alphabetic character followed by alphanumeric
\* characters yields a keyword token exactly when its spelling is one of
\* the eleven keywords (case matters) and an Ident token otherwise; a
\* keyword takes no symbol id and is never in the symbols list; the end
\* bound is exclusive and the terminator is dispatched again.
\* ------------------------------------------------------------------------
KeywordSpellings ==
    {<<"KwBegin", <<"b", "e", "g", "i", "n">> >>,
     <<"KwCall", <<"c", "a", "l", "l">> >>,
     <<"KwConst", <<"c", "o", "n", "s", "t">> >>,
     <<"KwDo", <<"d", "o">> >>,
     <<"KwEnd", <<"e", "n", "d">> >>,
     <<"KwIf", <<"i", "f">> >>,
     <<"KwOdd", <<"o", "d", "d">> >>,
     <<"KwProcedure", <<"p", "r", "o", "c", "e", "d", "u", "r", "e">> >>,
     <<"KwThen", <<"t", "h", "e", "n">> >>,
     <<"KwVar", <<"v", "a", "r">> >>,
     <<"KwWhile", <<"w", "h", "i", "l", "e">> >>}

IsKeyword(run) == \E kw \in KeywordSpellings : kw[2] = run

\* The run collected so far in state Ident.
IdentRun == SubSeq(text, CharIndex(text, state.start), k - 1)

\* The run is at its terminator: a non-alphanumeric character or the end.
IdentEnds ==
    /\ pc = "scan"
    /\ state.kind = "Ident"
    /\ k <= Len(text) => ~is_alphanumeric(text[k])

C17_IdentRunShape ==
    (pc = "scan" /\ state.kind = "Ident") =>
        LET i == CharIndex(text, state.start)
        IN  /\ i < k
            /\ is_alphabetic(text[i])
            /\ \A j \in (i + 1)..(k - 1) : is_alphanumeric(text[j])
            /\ token_start = SourcePos(text, i)

C17_KeywordsNotInterned ==
    \A n \in 1..Len(symbols) : ~IsKeyword(symbols[n])

C17_Resolution ==
    [][IdentEnds =>
        LET n == Len(tokens)
            tok == tokens'[n + 1]
        IN  /\ Len(tokens') = n + (IF k > Len(text) THEN 2 ELSE 1)
            /\ SubSeq(tokens', 1, n) = tokens
            /\ tok.start = token_start
            /\ tok.end = Excluded(pos)
            /\ IF IsKeyword(IdentRun)
               THEN /\ <<tok.lexeme.tag, IdentRun>> \in KeywordSpellings
                    /\ tok.lexeme = Lex(tok.lexeme.tag)
                    /\ symbols' = symbols
               ELSE /\ tok.lexeme.tag = "Ident"
                    /\ symbols'[tok.lexeme.id + 1] = IdentRun
                    /\ symbols' \in {symbols, Append(symbols, IdentRun)}
            /\ state' = Common
            /\ k <= Len(text) => k' = k /\ pos' = pos]_vars

C17_Keywords ==
    /\ [](C17_IdentRunShape /\ C17_KeywordsNotInterned)
    /\ C17_Resolution

\* "Do do xa ..." : the capitalised spelling is interned, the keyword is not.
C17_Witness ==
    /\ pc = "done"
    /\ Len(tokens) >= 3
    /\ tokens[1].lexeme.tag = "Ident"
    /\ tokens[2].lexeme = Lex("KwDo")
    /\ symbols[1] = <<"D", "o">>
    /\ Len(symbols) >= 2

\* ------------------------------------------------------------------------
\* C18: a block comment opened by /* ends exactly at the first / that
\* directly follows a * lying after the opener: /**/ and /***/ close, /*/
\* does not, and an inner /* changes nothing; after the close the state is
\* Common and the following characters are tokenized as usual.
\* ------------------------------------------------------------------------
InBlockComment == pc = "scan" /\ state \in {BlockComment, BlockCommentAst}

\* The index of the / of the opener.
Opener == CharAt(text, token_start)

\* A * after the opener directly followed by a /, the / at index j.
ClosesAt(j) == j - 1 >= Opener + 2 /\ text[j - 1] = "*" /\ text[j] = "/"

C18_CommentShape ==
    InBlockComment =>
        /\ Opener + 2 <= k
        /\ text[Opener] = "/"
        /\ text[Opener + 1] = "*"
        /\ \A j \in (Opener + 2)..(k - 1) : ~ClosesAt(j)
        /\ state = BlockCommentAst <=> (k - 1 >= Opener + 2 /\ text[k - 1] = "*")

C18_CommentStep ==
    [][/\ (Offered /\ state = Operator("/") /\ text[k] = "*") =>
              state' = BlockComment /\ tokens' = tokens /\ k' = k + 1
       /\ (Offered /\ InBlockComment) =>
              /\ tokens' = tokens
              /\ symbols' = symbols
              /\ k' = k + 1
              /\ token_start' = token_start
              /\ IF ClosesAt(k) THEN state' = Common
                 ELSE state' \in {BlockComment, BlockCommentAst}]_vars

C18_BlockComment == []C18_CommentShape /\ C18_CommentStep

\* "/*a/*b*/0*/" : the comment with an inner opener closed at the first */
\* and the rest tokenized.
C18_Witness ==
    /\ pc = "done"
    /\ Len(text) = 11
    /\ text[4] = "/"
    /\ text[5] = "*"
    /\ Lexemes = <<LexNumber32(U32(0)), Lex("SignAsterisk"), Lex("OpSolidus"),
                   Lex("Eof")>>
    /\ tokens[1].start = SourcePos(text, 9)

\* ------------------------------------------------------------------------
\* C19: in a string literal the character after a \ is string content and
\* never ends the string, whatever it is; only a " seen in state String
\* completes it, with one String token holding the raw source strictly
\* between the quotes, starting at the opening quote and ending Included
\* at the closing quote.
\* ------------------------------------------------------------------------
InString == pc = "scan" /\ state.kind \in {"String", "StringEscSeq"}

\* The index of the opening quote.
OpeningQuote == CharAt(text, token_start)

\* The number of \ in a row ending at index j, counted inside the literal.
RECURSIVE BackslashRun(_)
BackslashRun(j) ==
    IF j <= OpeningQuote \/ text[j] # "\\" THEN 0 ELSE 1 + BackslashRun(j - 1)

\* The character at index j follows an escaping \.
Escaped(j) == BackslashRun(j - 1) % 2 = 1

C19_StringShape ==
    InString =>
        /\ OpeningQuote < k
        /\ text[OpeningQuote] = "\""
        /\ CharIndex(text, state.start) = OpeningQuote + 1
        /\ state.kind = "StringEscSeq" <=> Escaped(k)
        /\ \A j \in (OpeningQuote + 1)..(k - 1) : text[j] = "\"" => Escaped(j)

C19_StringStep ==
    [][(Offered /\ InString) =>
        /\ k' = k + 1
        /\ symbols' = symbols
        /\ IF ~Escaped(k) /\ text[k] = "\""
           THEN /\ tokens' = Append(tokens,
                        Token(LexString(SubSeq(text, OpeningQuote + 1, k - 1)),
                              SourcePos(text, OpeningQuote),
                              Included(SourcePos(text, k))))
                /\ state' = Common
           ELSE /\ tokens' = tokens
                /\ state'.kind \in {"String", "StringEscSeq"}
                /\ state'.start = state.start
                /\ token_start' = token_start]_vars

C19_StringLiteral == []C19_StringShape /\ C19_StringStep

\* "a\"b" y : the escaped quote is content, the backslash is kept.
C19_Witness ==
    /\ pc = "done"
    /\ Len(tokens) = 3
    /\ tokens[1] = Token(LexString(<<"a", "\\", "\"", "b">>),
                         [line |-> 1, col |-> 1],
                         Included([line |-> 1, col |-> 6]))
    /\ tokens[2].lexeme.tag = "Ident"

\* ------------------------------------------------------------------------
\* C20: after a leading 0 a character other than b, o, x fixes radix 10
\* with the digit span still starting at the 0, and is handled in the same
\* step as a radix-10 character: a digit continues the number, a full stop
\* enters Decimal with the span starting at the 0, anything else ends the
\* token as Number32(0). For radix 2, 8 and 16 a full stop never enters
\* Decimal: it ends the number and becomes a SignFullStop token of its own.
\* ------------------------------------------------------------------------
\* The index of the leading 0.
LeadingZero == CharAt(text, token_start)

AfterLeadingZero == Offered /\ state.kind = "Number" /\ state.radix = 0

PrefixedNumber == state.kind = "Number" /\ state.radix \in {2, 8, 16}

C20_LeadingZeroShape ==
    (pc = "scan" /\ state.kind = "Number" /\ state.radix = 0) =>
        /\ k = LeadingZero + 1
        /\ text[LeadingZero] = "0"
        /\ state.start = ByteOff(text, LeadingZero)

\* The span of a Decimal state is written in decimal digits with one full
\* stop and starts at the first character of the token.
C20_DecimalShape ==
    (pc = "scan" /\ state.kind = "Decimal") =>
        LET i == CharIndex(text, state.start)
        IN  /\ token_start = SourcePos(text, i)
            /\ i < k - 1
            /\ \E d \in (i + 1)..(k - 1) :
                  /\ text[d] = "."
                  /\ \A j \in (i..(k - 1)) \ {d} : text[j] \in DecDigits

C20_NumberStep ==
    [][/\ (AfterLeadingZero /\ text[k] \notin {"b", "o", "x"}) =>
            CASE text[k] \in DecDigits ->
                    /\ state' = Number(ByteOff(text, LeadingZero), 10)
                    /\ tokens' = tokens
                    /\ k' = k + 1
              [] text[k] = "." ->
                    /\ state' = Decimal(ByteOff(text, LeadingZero))
                    /\ tokens' = tokens
                    /\ k' = k + 1
              [] OTHER ->
                    /\ tokens' = Append(tokens, Token(LexNumber32(U32(0)),
                                                      token_start, Excluded(pos)))
                    /\ state' = Common
                    /\ k' = k
       /\ (Offered /\ PrefixedNumber /\ text[k] = ".") =>
            /\ Len(tokens') = Len(tokens) + 1
            /\ tokens'[Len(tokens')].lexeme.tag \in {"Number32", "Error"}
            /\ tokens'[Len(tokens')].end = Excluded(pos)
            /\ state' = Common
            /\ k' = k
       /\ (Offered /\ state = Common /\ text[k] = ".") =>
            /\ tokens' = Append(tokens, Token(Lex("SignFullStop"), pos,
                                              Included(pos)))
            /\ state' = Common
            /\ k' = k + 1]_vars

C20_RadixTen ==
    /\ [](C20_LeadingZeroShape /\ C20_DecimalShape)
    /\ C20_NumberStep

\* "0.5 0x1." : a decimal starting at its 0, then a hexadecimal literal
\* ended by a full stop that is a token of its own.
C20_Witness ==
    /\ pc = "done"
    /\ Len(text) = 8
    /\ Tags = <<"Decimal64", "Number32", "SignFullStop", "Eof">>
    /\ tokens[1].start = [line |-> 1, col |-> 1]
    /\ tokens[2].lexeme = LexNumber32(U32(1))
    /\ tokens[3].start = [line |-> 1, col |-> 8]
====
